---------------------------- MODULE Spec2Model ----------------------------
(***************************************************************************)
(* archive-maildir: the archival pipeline.                                 *)
(*                                                                         *)
(* The driver is the loop of main() in src/src/main.rs (lines 229-272).    *)
(* The archival strategies exist twice in the sources: the ones of         *)
(* main.rs (lines 149-199), which panic on every failing step, and the     *)
(* ones of archiver.rs (lines 46-99), which return Err.  The variable      *)
(* `variant` says which of the two a run is linked with.                   *)
(*                                                                         *)
(* Every filesystem call is one step of the model, so that the states      *)
(* between two calls of one archive_email are states of the model.         *)
(* A filesystem call that can fail fails nondeterministically.             *)
(*                                                                         *)
(* The source mailbox is assumed to be none of the destination mailboxes,  *)
(* and nothing but the program changes the mailboxes during a run.         *)
(***************************************************************************)
EXTENDS Integers, Sequences, FiniteSets, TLC

\* Bound of the model: the number of entries of the source mailbox's cur area.
MaxMails == 2

VARIABLES
    variant,       \* "main" (archivers of main.rs) or "lib" (archivers of archiver.rs)
    opts,          \* ProgramOptions
    order,         \* the order in which read_dir yields the entries of cur
    srcCur,        \* the entries of the source mailbox's cur area
    dstRoots,      \* destination mailbox roots that exist on disk
    dstReady,      \* destination mailboxes whose cur, new and tmp all exist
    dstCur,        \* the messages of the destination cur areas, in delivery order
    entries,       \* the listing list_cur() yields in this run
    idx,           \* position of the loop in entries (0 before the first)
    pc,            \* position of the program
    buff,          \* the bytes read from the opened source file
    pre,           \* the mailboxes as they were when the archiving of Mail began
    outcome,       \* per entry of this run, how its iteration ended
    log,           \* the records handed to the logger in this run
    run,           \* number of this invocation: 1, or 2 when the program was run again
    history        \* what the former invocations left

vars == <<variant, opts, order, srcCur, dstRoots, dstReady, dstCur, entries,
          idx, pc, buff, pre, outcome, log, run, history>>

---------------------------------------------------------------------------
\* Dates.  A date is <<year, month, day>>.

\* NaiveDate's ordering: by year, then month, then day.
DateLess(a, b) ==
    \/ a[1] < b[1]
    \/ a[1] = b[1] /\ a[2] < b[2]
    \/ a[1] = b[1] /\ a[2] = b[2] /\ a[3] < b[3]

\* The calendar date of a day number counted from 1970-01-01 (proleptic
\* Gregorian calendar), as chrono computes it.
CivilFromDays(days) ==
    LET z == days + 719468
        era == z \div 146097
        doe == z - era * 146097
        yoe == (doe - doe \div 1460 + doe \div 36524 - doe \div 146096) \div 365
        doy == doe - (365 * yoe + yoe \div 4 - yoe \div 100)
        mp == (5 * doy + 2) \div 153
        d == doy - (153 * mp + 2) \div 5 + 1
        m == IF mp < 10 THEN mp + 3 ELSE mp - 9
        y == yoe + era * 400 + (IF m <= 2 THEN 1 ELSE 0)
    IN  <<y, m, d>>

\* NaiveDateTime::from_timestamp(timestamp, 0).date(): the UTC calendar date
\* of a number of seconds since the epoch; the time of day is dropped.
DateOfTimestamp(timestamp) == CivilFromDays(timestamp \div 86400)

\* Two decimal digits, zero padded (%m and %d).
Pad2(n) == IF n < 10 THEN "0" \o ToString(n) ELSE ToString(n)

---------------------------------------------------------------------------
\* The entries a source mailbox's cur area is drawn from.  A "mail" entry is
\* a message file: its name carries the id and the flags, its content the
\* body and the Received header, from which received() takes the timestamp
\* (dated = FALSE: received() returns Err).  A "corrupt" entry is one for
\* which list_cur() yields Err.
Catalogue ==
    { [id |-> "M1", kind |-> "mail", dated |-> TRUE, timestamp |-> 1577836800,
       body |-> "body1", flags |-> "S"],
      [id |-> "M2", kind |-> "mail", dated |-> TRUE, timestamp |-> 1685577600,
       body |-> "body2", flags |-> ""],
      [id |-> "M3", kind |-> "mail", dated |-> TRUE, timestamp |-> 1640995199,
       body |-> "body3", flags |-> "RS"],
      [id |-> "M4", kind |-> "mail", dated |-> TRUE, timestamp |-> 1640995200,
       body |-> "body4", flags |-> "F"],
      [id |-> "M5", kind |-> "mail", dated |-> FALSE, timestamp |-> 0,
       body |-> "body5", flags |-> "S"],
      [id |-> "E6", kind |-> "corrupt", dated |-> FALSE, timestamp |-> 0,
       body |-> "", flags |-> ""] }

\* The sequences without repetition over S, of length 1 to n.
RECURSIVE InjSeqs(_, _)
InjSeqs(S, n) ==
    IF n = 0 THEN {<<>>}
    ELSE LET shorter == InjSeqs(S, n - 1)
         IN  shorter \cup
             { Append(q, e) : q \in {r \in shorter : Len(r) = n - 1},
                              e \in S }

Range(q) == { q[i] : i \in 1..Len(q) }

Inboxes == { q \in InjSeqs(Catalogue, MaxMails) :
                Len(q) >= 1 /\ Cardinality(Range(q)) = Len(q) }

ArchiveModes == {"Move", "Copy", "DryRun"}
SplitBys == {"Year", "Month", "Day", "None"}
Befores == { <<2022, 1, 1>>, <<2021, 12, 31>> }
Affixes == { <<"old_", "">>, <<"", ".bak">> }
Variants == {"main", "lib"}

---------------------------------------------------------------------------
\* The driver's pure parts.

\* `date <= before`: the message dated the cutoff date is archived too.
IsOlder_OrEqual(date, before) == DateLess(date, before) \/ date = before

\* `date < before`: only a message strictly older than the cutoff is archived.
IsOlder(date, before) == DateLess(date, before)

\* The month and the day written without their leading zero.
FormatDate_Unpadded(date, split_by) ==
    CASE split_by = "Year" -> ToString(date[1])
      [] split_by = "Month" -> ToString(date[1]) \o "-" \o ToString(date[2])
      [] split_by = "Day" ->
            ToString(date[1]) \o "-" \o ToString(date[2]) \o "-" \o ToString(date[3])

\* date.format(...) for the split policies the driver matches on.
FormatDate(date, split_by) ==
    CASE split_by = "Year" -> ToString(date[1])
      [] split_by = "Month" -> ToString(date[1]) \o "-" \o Pad2(date[2])
      [] split_by = "Day" ->
            ToString(date[1]) \o "-" \o Pad2(date[2]) \o "-" \o Pad2(date[3])

\* The split policy None of args.rs: no date in the name of the mailbox.
FormatNone(date) == ""

Formatted(date, split_by) ==
    IF split_by = "None" THEN FormatNone(date) ELSE FormatDate(date, split_by)

\* PathBuf::push of a relative component.
Push(path, component) == path \o "/" \o component

\* The root of the destination mailbox of a message of the given date.
OutputFolder(o, date) ==
    Push(o.output_dir, o.prefix \o Formatted(date, o.split_by) \o o.suffix)

\* list_cur(): the entries of cur, in the directory's order.
ListOf(ord, cur) == SelectSeq(ord, LAMBDA e : e \in cur)

\* The message delivered without the flags of the original.
Delivered_NoFlags(dir, bytes, mail) == [dir |-> dir, body |-> bytes, flags |-> ""]

\* store_cur_with_flags(&buff, mail.flags()): the message delivered to `dir`.
Delivered(dir, bytes, mail) == [dir |-> dir, body |-> bytes, flags |-> mail.flags]

\* A delivery that replaces what the destination held.
StoreCur_Replace(cur, message) == <<message>>

\* The destination cur areas after the delivery of `message`: a new file
\* beside the ones that are there.
StoreCur(cur, message) == Append(cur, message)

\* A delete that removes nothing and reports success.
Deleted_Nothing(cur, mail) == cur

\* from_maildir.delete(mail.id()).
Deleted(cur, mail) == { e \in cur : e.id # mail.id }

\* The Mover in the order delete-then-write: the source is deleted before the
\* message is stored.
StepAfter_DeleteFirst(v, mode, step) ==
    CASE step = "open" -> IF v = "lib" THEN "create_dirs" ELSE "read"
      [] step = "create_dirs" -> "read"
      [] step = "read" -> IF mode = "Move" THEN "delete" ELSE "store"
      [] step = "delete" -> "store"
      [] step = "store" -> "return"

\* The Mover deleting the source as soon as the file is open, before the
\* bytes are read and stored.
StepAfter_DeleteOnOpen(v, mode, step) ==
    CASE step = "open" -> IF mode = "Move" THEN "delete"
                          ELSE IF v = "lib" THEN "create_dirs" ELSE "read"
      [] step = "delete" -> IF v = "lib" THEN "create_dirs" ELSE "read"
      [] step = "create_dirs" -> "read"
      [] step = "read" -> "store"
      [] step = "store" -> "return"

\* The step that follows a successful step of archive_email ("return": the
\* call returns Ok).
StepAfter(v, mode, step) ==
    CASE step = "open" -> IF v = "lib" THEN "create_dirs" ELSE "read"
      [] step = "create_dirs" -> "read"
      [] step = "read" -> "store"
      [] step = "store" -> IF mode = "Move" THEN "delete" ELSE "return"
      [] step = "delete" -> "return"

---------------------------------------------------------------------------
Mail == entries[idx]
MailDate == DateOfTimestamp(Mail.timestamp)
ToMaildir == OutputFolder(opts, MailDate)

Record(level, msg, id) == [level |-> level, msg |-> msg, id |-> id]
Pending == [result |-> "pending", step |-> ""]
SetOutcome(result, step) ==
    outcome' = [outcome EXCEPT ![idx] = [result |-> result, step |-> step]]

Init ==
    /\ variant \in Variants
    /\ \E mode \in ArchiveModes, split \in SplitBys, before \in Befores,
          affix \in Affixes :
          opts = [archive_mode |-> mode, split_by |-> split, before |-> before,
                  prefix |-> affix[1], suffix |-> affix[2],
                  output_dir |-> "output"]
    /\ order \in Inboxes
    /\ srcCur = Range(order)
    /\ dstRoots = {}
    /\ dstReady = {}
    /\ dstCur = <<>>
    /\ entries = <<>>
    /\ idx = 0
    /\ pc = "start"
    /\ buff = ""
    /\ pre = [srcCur |-> {}, dstCur |-> <<>>]
    /\ outcome = <<>>
    /\ log = <<>>
    /\ run = 1
    /\ history = <<>>

---------------------------------------------------------------------------
\* The driver: main(), the loop over list_cur().

fsVars == <<srcCur, dstRoots, dstReady, dstCur>>
fixed == <<variant, opts, order, run, history>>

\* The program starts: the listing is taken and the first record is logged.
ListCur ==
    /\ pc = "start"
    /\ entries' = ListOf(order, srcCur)
    /\ outcome' = [i \in 1..Len(ListOf(order, srcCur)) |-> Pending]
    /\ idx' = 0
    /\ log' = Append(log, Record("info", "Archiving emails", ""))
    /\ pc' = "loop"
    /\ UNCHANGED <<fsVars, fixed, buff, pre>>

\* The listing is exhausted: main returns.
LoopEnd ==
    /\ pc = "loop"
    /\ idx = Len(entries)
    /\ pc' = "done"
    /\ UNCHANGED <<fsVars, fixed, entries, idx, buff, pre, outcome, log>>

\* Err(e) => error!("{}", e)
EntryErr ==
    /\ pc = "loop"
    /\ idx < Len(entries)
    /\ entries[idx + 1].kind = "corrupt"
    /\ idx' = idx + 1
    /\ outcome' = [outcome EXCEPT ![idx + 1] = [result |-> "skipped", step |-> "list_cur"]]
    /\ log' = Append(log, Record("error", "entry", ""))
    /\ UNCHANGED <<fsVars, fixed, entries, pc, buff, pre>>

\* The missing timestamp taken as 0: the message counts as one of 1970-01-01
\* and is handed on to be archived.
ReceivedErr_Epoch ==
    /\ pc = "loop"
    /\ idx < Len(entries)
    /\ entries[idx + 1].kind = "mail"
    /\ ~entries[idx + 1].dated
    /\ idx' = idx + 1
    /\ log' = Append(log, Record("debug", "is older than threshold", entries[idx + 1].id))
    /\ pre' = [srcCur |-> srcCur, dstCur |-> dstCur]
    /\ pc' = "to_maildir"
    /\ UNCHANGED <<fsVars, fixed, entries, buff, outcome>>

\* mail.received() is Err(e): error!("Error while extracting date ...")
ReceivedErr ==
    /\ pc = "loop"
    /\ idx < Len(entries)
    /\ entries[idx + 1].kind = "mail"
    /\ ~entries[idx + 1].dated
    /\ idx' = idx + 1
    /\ outcome' = [outcome EXCEPT ![idx + 1] = [result |-> "skipped", step |-> "received"]]
    /\ log' = Append(log, Record("error", "Error while extracting date", entries[idx + 1].id))
    /\ UNCHANGED <<fsVars, fixed, entries, pc, buff, pre>>

\* date < before is false: debug!("Ignoring email ...")
NotOlder ==
    /\ pc = "loop"
    /\ idx < Len(entries)
    /\ entries[idx + 1].kind = "mail"
    /\ entries[idx + 1].dated
    /\ ~IsOlder(DateOfTimestamp(entries[idx + 1].timestamp), opts.before)
    /\ idx' = idx + 1
    /\ outcome' = [outcome EXCEPT ![idx + 1] = [result |-> "skipped", step |-> "filter"]]
    /\ log' = Append(log, Record("debug", "Ignoring email", entries[idx + 1].id))
    /\ UNCHANGED <<fsVars, fixed, entries, pc, buff, pre>>

\* date < before: debug!("Email ... is older than threshold"), and the
\* destination mailbox is computed.
Older ==
    /\ pc = "loop"
    /\ idx < Len(entries)
    /\ entries[idx + 1].kind = "mail"
    /\ entries[idx + 1].dated
    /\ IsOlder(DateOfTimestamp(entries[idx + 1].timestamp), opts.before)
    /\ idx' = idx + 1
    /\ log' = Append(log, Record("debug", "is older than threshold", entries[idx + 1].id))
    /\ pre' = [srcCur |-> srcCur, dstCur |-> dstCur]
    /\ pc' = "to_maildir"
    /\ UNCHANGED <<fsVars, fixed, entries, buff, outcome>>

\* create_dirs(): cur, new and tmp are created one after the other; a failure
\* may leave the root behind.
CreateDirsOk(dir) ==
    /\ dstRoots' = dstRoots \cup {dir}
    /\ dstReady' = dstReady \cup {dir}

CreateDirsFail(dir) ==
    /\ dstRoots' \in {dstRoots, dstRoots \cup {dir}}
    /\ dstReady' = dstReady

\* to_maildir.create_dirs().unwrap() of main, then info!("Archiving email ...").
DriverCreateDirs ==
    /\ pc = "to_maildir"
    /\ CreateDirsOk(ToMaildir)
    /\ log' = Append(log, Record("info", "Archiving email", Mail.id))
    /\ pc' = "archive"
    /\ UNCHANGED <<srcCur, dstCur, fixed, entries, idx, buff, pre, outcome>>

\* to_maildir.create_dirs() is Err: unwrap() panics.
DriverCreateDirsPanic ==
    /\ pc = "to_maildir"
    /\ CreateDirsFail(ToMaildir)
    /\ SetOutcome("panic", "driver_create_dirs")
    /\ pc' = "panicked"
    /\ UNCHANGED <<srcCur, dstCur, fixed, entries, idx, buff, pre, log>>

---------------------------------------------------------------------------
\* The archival strategies: archive_email(&mail, &opts.input_path, &to_maildir).

\* A step of archive_email succeeded: the next step, or the call returns Ok
\* and the driver's unwrap() lets the loop go on.
Proceed(step) ==
    LET next == StepAfter(variant, opts.archive_mode, step)
    IN  IF next = "return"
        THEN pc' = "loop" /\ SetOutcome("Ok", "")
        ELSE pc' = next /\ UNCHANGED outcome

\* A step of archive_email failed.  The archivers of main.rs unwrap() the
\* step and panic; those of archiver.rs return Err through `?`, and the
\* driver's unwrap() of the returned value panics.
Fail(step) ==
    /\ SetOutcome(IF variant = "main" THEN "panic" ELSE "Err", step)
    /\ pc' = "panicked"

\* DryRunMaildirArchiver: Ok(()).
DryRunArchive ==
    /\ pc = "archive"
    /\ opts.archive_mode = "DryRun"
    /\ SetOutcome("Ok", "")
    /\ pc' = "loop"
    /\ UNCHANGED <<fsVars, fixed, entries, idx, buff, pre, log>>

\* Move and Copy: File::open(mail.path()).
Open ==
    /\ pc = "archive"
    /\ opts.archive_mode # "DryRun"
    /\ Mail \in srcCur
    /\ buff' = ""
    /\ Proceed("open")
    /\ UNCHANGED <<fsVars, fixed, entries, idx, pre, log>>

OpenFail ==
    /\ pc = "archive"
    /\ opts.archive_mode # "DryRun"
    /\ Fail("open")
    /\ UNCHANGED <<fsVars, fixed, entries, idx, buff, pre, log>>

\* archiver.rs only: to_maildir.create_dirs()?
ArchiverCreateDirs ==
    /\ pc = "create_dirs"
    /\ CreateDirsOk(ToMaildir)
    /\ Proceed("create_dirs")
    /\ UNCHANGED <<srcCur, dstCur, fixed, entries, idx, buff, pre, log>>

ArchiverCreateDirsFail ==
    /\ pc = "create_dirs"
    /\ CreateDirsFail(ToMaildir)
    /\ Fail("create_dirs")
    /\ UNCHANGED <<srcCur, dstCur, fixed, entries, idx, buff, pre, log>>

\* file.read_to_end(&mut buff)
Read ==
    /\ pc = "read"
    /\ buff' = Mail.body
    /\ Proceed("read")
    /\ UNCHANGED <<fsVars, fixed, entries, idx, pre, log>>

ReadFail ==
    /\ pc = "read"
    /\ Fail("read")
    /\ UNCHANGED <<fsVars, fixed, entries, idx, buff, pre, log>>

\* to_maildir.store_cur_with_flags(&buff, mail.flags()): the message appears
\* in the destination's cur area at once, or not at all.
Store ==
    /\ pc = "store"
    /\ ToMaildir \in dstReady
    /\ dstCur' = StoreCur(dstCur, Delivered(ToMaildir, buff, Mail))
    /\ Proceed("store")
    /\ UNCHANGED <<srcCur, dstRoots, dstReady, fixed, entries, idx, buff, pre, log>>

StoreFail ==
    /\ pc = "store"
    /\ Fail("store")
    /\ UNCHANGED <<fsVars, fixed, entries, idx, buff, pre, log>>

\* from_maildir.delete(mail.id())
Delete ==
    /\ pc = "delete"
    /\ Mail \in srcCur
    /\ srcCur' = Deleted(srcCur, Mail)
    /\ Proceed("delete")
    /\ UNCHANGED <<dstRoots, dstReady, dstCur, fixed, entries, idx, buff, pre, log>>

DeleteFail ==
    /\ pc = "delete"
    /\ Fail("delete")
    /\ UNCHANGED <<fsVars, fixed, entries, idx, buff, pre, log>>

---------------------------------------------------------------------------
\* The program has ended (main returned, or a panic unwound it) and is
\* started a second time with the same options on the same mailboxes.
\* Nothing but the mailboxes survives; `history` keeps what the first run
\* left.
Ended == pc \in {"done", "panicked"}

Rerun ==
    /\ Ended
    /\ run = 1
    /\ history' = Append(history, [pc |-> pc, entries |-> entries,
                                   outcome |-> outcome, srcCur |-> srcCur,
                                   dstRoots |-> dstRoots, dstCur |-> dstCur])
    /\ run' = run + 1
    /\ pc' = "start"
    /\ entries' = <<>>
    /\ outcome' = <<>>
    /\ idx' = 0
    /\ buff' = ""
    /\ pre' = [srcCur |-> {}, dstCur |-> <<>>]
    /\ log' = <<>>
    /\ UNCHANGED <<fsVars, variant, opts, order>>

Next ==
    \/ ListCur
    \/ LoopEnd
    \/ EntryErr
    \/ ReceivedErr
    \/ NotOlder
    \/ Older
    \/ DriverCreateDirs
    \/ DriverCreateDirsPanic
    \/ DryRunArchive
    \/ Open
    \/ OpenFail
    \/ ArchiverCreateDirs
    \/ ArchiverCreateDirsFail
    \/ Read
    \/ ReadFail
    \/ Store
    \/ StoreFail
    \/ Delete
    \/ DeleteFail
    \/ Rerun

Spec == Init /\ [][Next]_vars

---------------------------------------------------------------------------
\* What the claims speak of.

Inbox == Range(order)
Messages == { m \in Inbox : m.kind = "mail" }
Mode == opts.archive_mode

\* The messages of `cur` that lie in the mailbox `dir` and are copies of m.
CopiesIn(m, cur, dir) ==
    { i \in 1..Len(cur) : cur[i].dir = dir /\ cur[i].body = m.body
                          /\ cur[i].flags = m.flags }

\* A message with the bytes of m lies in some destination mailbox.
InDestination(m) == \E i \in 1..Len(dstCur) : dstCur[i].body = m.body

OkCount(out) == Cardinality({ i \in 1..Len(out) : out[i].result = "Ok" })
TotalOk == OkCount(outcome) + (IF run = 2 THEN OkCount(history[1].outcome) ELSE 0)

\* C1: in Move mode a message leaves the source mailbox only after it was
\* stored in the destination: in every state, whatever steps failed, each
\* message of the source is in the source or in a destination mailbox.
C1_WriteThenDelete ==
    Mode = "Move" => \A m \in Messages : m \in srcCur \/ InDestination(m)

\* A message was moved: stored, then deleted from the source.
C1_Witness ==
    /\ Mode = "Move"
    /\ \E m \in Messages : m \notin srcCur /\ InDestination(m)

\* C2: a DryRun run changes neither the source mailbox nor the set of
\* destination mailboxes that exist.
C2_DryRunNoEffect ==
    Mode = "DryRun" => srcCur = Inbox /\ dstRoots = {} /\ dstCur = <<>>

\* C3: the source holds its initial number of messages, less in Move mode the
\* number of successful archive_email calls; and a call that returned Ok left
\* the source one smaller (Move) or as it was (Copy, DryRun), and the
\* destination one larger (Move, Copy).
C3_SourceCount ==
    /\ Cardinality(srcCur) =
          Cardinality(Inbox) - (IF Mode = "Move" THEN TotalOk ELSE 0)
    /\ (idx >= 1 /\ pc \in {"loop", "done"} /\ outcome[idx].result = "Ok") =>
          /\ Cardinality(srcCur) =
                Cardinality(pre.srcCur) - (IF Mode = "Move" THEN 1 ELSE 0)
          /\ Len(dstCur) = Len(pre.dstCur) + (IF Mode = "DryRun" THEN 0 ELSE 1)
          /\ Mode # "DryRun" =>
                Cardinality(CopiesIn(Mail, dstCur, ToMaildir)) =
                   Cardinality(CopiesIn(Mail, pre.dstCur, ToMaildir)) + 1

\* A Move run has ended and archived a message of a source that held more.
C3_Witness ==
    /\ Mode = "Move"
    /\ pc = "done"
    /\ OkCount(outcome) >= 1
    /\ Cardinality(srcCur) = Cardinality(Inbox) - OkCount(outcome)
    /\ srcCur # {}

\* The received date of a message, and whether it is strictly earlier than
\* the cutoff.
ReceivedDate(m) == DateOfTimestamp(m.timestamp)
Eligible(m) == m.kind = "mail" /\ m.dated /\ DateLess(ReceivedDate(m), opts.before)
Recent(m) == m.kind = "mail" /\ m.dated /\ ~DateLess(ReceivedDate(m), opts.before)

\* m lies in the destination mailbox `dir`, bytes and flags as in the source,
\* and in no other destination mailbox.
ExactlyIn(m, cur, dir) ==
    /\ CopiesIn(m, cur, dir) # {}
    /\ \A i \in 1..Len(cur) : cur[i].body = m.body => cur[i].dir = dir

C5_RecentUntouched ==
    /\ \A m \in Messages :
          Recent(m) =>
             /\ m \in srcCur
             /\ ~InDestination(m)
             /\ \A i \in 1..Len(entries) :
                   entries[i] = m => outcome[i].result \in {"pending", "skipped"}
    /\ dstRoots \subseteq
          { OutputFolder(opts, ReceivedDate(m)) : m \in {x \in Messages : Eligible(x)} }

\* A Move run has ended that moved a message and left one dated exactly the
\* cutoff date.
C5_Witness ==
    /\ Mode = "Move"
    /\ pc = "done"
    /\ srcCur # Inbox
    /\ \E m \in Messages : m.dated /\ ReceivedDate(m) = opts.before /\ m \in srcCur

\* The steps of the archiving of one message that can fail.
FailingSteps == {"driver_create_dirs", "open", "create_dirs", "read", "store", "delete"}

\* C6: when the archiving of a message fails, the failure is reported (a
\* panic or an Err), the message is still in the source with its flags, and
\* nothing was delivered for it (it is absent from the destination in a first
\* run); but when the Mover's delete fails after its store, the stored copy
\* is in the destination too.  The message is never absent from both.
C6_FailureKeepsMessage ==
    pc = "panicked" =>
        /\ outcome[idx].result \in {"panic", "Err"}
        /\ outcome[idx].step \in FailingSteps
        /\ Mail \in srcCur
        /\ IF Mode = "Move" /\ outcome[idx].step = "delete"
           THEN /\ dstCur = Append(pre.dstCur, [dir |-> ToMaildir,
                                                body |-> Mail.body,
                                                flags |-> Mail.flags])
           ELSE /\ dstCur = pre.dstCur
                /\ run = 1 => ~InDestination(Mail)

\* The Mover's delete failed after its store: the message is in both.
C6_Witness ==
    /\ pc = "panicked"
    /\ Mode = "Move"
    /\ outcome[idx].step = "delete"
    /\ Mail \in srcCur
    /\ InDestination(Mail)

\* The date part of the mailbox name the specification fixes for each dated
\* message of the catalogue: M1 is of 2020-01-01, M2 of 2023-06-01, M3 of
\* 2021-12-31 (23:59:59) and M4 of 2022-01-01.
ExpectedDate(id, split_by) ==
    LET ymd == CASE id = "M1" -> <<"2020", "01", "01">>
                 [] id = "M2" -> <<"2023", "06", "01">>
                 [] id = "M3" -> <<"2021", "12", "31">>
                 [] id = "M4" -> <<"2022", "01", "01">>
    IN  CASE split_by = "Year" -> ymd[1]
          [] split_by = "Month" -> ymd[1] \o "-" \o ymd[2]
          [] split_by = "Day" -> ymd[1] \o "-" \o ymd[2] \o "-" \o ymd[3]
          [] split_by = "None" -> ""

ExpectedRoot(id) ==
    opts.output_dir \o "/" \o opts.prefix \o ExpectedDate(id, opts.split_by)
                    \o opts.suffix

\* The positions of the program at which a message is being archived.
Archiving == pc \in {"to_maildir", "archive", "create_dirs", "read", "store", "delete"}

\* C7: the destination mailbox of a message is output_dir / (prefix + date +
\* suffix), the date written YYYY, YYYY-MM, YYYY-MM-DD or not at all as the
\* split policy says; every mailbox created and every delivery made is to
\* such a root; and with split None, prefix "old_" and no suffix the one
\* destination is output/old_.
C7_DestinationRoot ==
    /\ Archiving => ToMaildir = ExpectedRoot(Mail.id)
    /\ dstRoots \subseteq { ExpectedRoot(m.id) : m \in {x \in Messages : x.dated} }
    /\ \A i \in 1..Len(dstCur) :
          \E m \in Messages :
             m.dated /\ dstCur[i].body = m.body /\ dstCur[i].dir = ExpectedRoot(m.id)
    /\ (opts.split_by = "None" /\ opts.prefix = "old_" /\ opts.suffix = "") =>
          dstRoots \subseteq {"output/old_"}

\* A message of 2020-01-01 was delivered under the split policy Day, with a
\* suffix.
C7_Witness ==
    /\ opts.split_by = "Day"
    /\ \E i \in 1..Len(dstCur) : dstCur[i].dir = "output/2020-01-01.bak"

\* The text of the summary: archived / total.
Summary(archived, total) == ToString(archived) \o "/" \o ToString(total)

\* C8: when the enumeration is exhausted the run has emitted the summary
\* "archived / total", archived being the number of archive steps that
\* returned Ok and total the number of entries considered.
C8_SummaryEmitted ==
    pc = "done" =>
        \E i \in 1..Len(log) :
            log[i].msg = Summary(OkCount(outcome), Len(entries))

\* The (bytes, flags) pairs a destination mailbox holds.
Pairs(cur, dir) ==
    { <<cur[i].body, cur[i].flags>> : i \in {j \in 1..Len(cur) : cur[j].dir = dir} }

Dirs(cur) == { cur[i].dir : i \in 1..Len(cur) }

\* What the first run delivered is still there, unaltered.
FirstRunKept ==
    /\ Len(history[1].dstCur) <= Len(dstCur)
    /\ SubSeq(dstCur, 1, Len(history[1].dstCur)) = history[1].dstCur

SameContent ==
    \A dir \in Dirs(dstCur) \cup Dirs(history[1].dstCur) :
        Pairs(dstCur, dir) = Pairs(history[1].dstCur, dir)

C10_EveryEntryConsidered ==
    Ended => \A i \in 1..Len(entries) : outcome[i].result # "pending"

\* An entry that cannot be archived: list_cur() yields Err for it, or its
\* received() is Err.
Undated(e) == e.kind = "corrupt" \/ (e.kind = "mail" /\ ~e.dated)

\* The error record the driver logs for such an entry.
ErrorRecord(e) ==
    IF e.kind = "corrupt" THEN [level |-> "error", msg |-> "entry", id |-> ""]
    ELSE [level |-> "error", msg |-> "Error while extracting date", id |-> e.id]

ErrorsLogged == { i \in 1..Len(log) : log[i].level = "error" }

\* C11: in every mode an entry whose enumeration fails or whose received
\* timestamp cannot be extracted is never handed to an archiver and never
\* counted as archived, stays in the source as it was and is in no
\* destination; once the loop has come to it, it is skipped, its error is
\* logged (one error record per such entry, and no other), and the loop goes
\* on with the next entry.
C11_UndatedSkipped ==
    /\ \A i \in 1..Len(entries) :
          Undated(entries[i]) =>
             /\ entries[i] \in srcCur
             /\ \A j \in 1..Len(dstCur) : dstCur[j].body # entries[i].body
             /\ outcome[i].result \in {"pending", "skipped"}
             /\ i <= idx =>
                   /\ outcome[i].result = "skipped"
                   /\ \E j \in ErrorsLogged : log[j] = ErrorRecord(entries[i])
             /\ i = idx => pc \in {"loop", "done"}
    /\ Cardinality(ErrorsLogged) =
          Cardinality({ i \in 1..Len(entries) : i <= idx /\ Undated(entries[i]) })

\* A Move run has ended that skipped an undated message first and then
\* archived the message that followed it.
C11_Witness ==
    /\ Mode = "Move"
    /\ pc = "done"
    /\ Len(entries) = 2
    /\ entries[1].kind = "mail" /\ ~entries[1].dated
    /\ outcome[1].result = "skipped"
    /\ outcome[2].result = "Ok"
    /\ entries[1] \in srcCur

====
